---- MODULE Spec2Model ----
(***************************************************************************)
(* A model of the yui middleware.                                          *)
(*                                                                         *)
(* lib/seed.js (kept as src/unnamed/part_000): exposeSeed() turns the      *)
(* ordered seed list of module names into an ordered list of {src}         *)
(* descriptors, merging runs of modules of compatible combinable groups    *)
(* into one combo url, and returns a middleware that exposes that list on  *)
(* res.locals.yui_seed.                                                    *)
(* lib/yui.js: yui() sets up the static configuration once; applyConfig,   *)
(* debugMode, seed and addModuleToSeed change it; exposeConfig() returns a *)
(* middleware that exposes its text on res.locals.yui_config.              *)
(* lib/server.js: registerModules and attachModules queue groups and       *)
(* modules for the server Y instance that use() creates or updates.        *)
(* lib/hashfiles.js: process() hashes the entries of a directory and calls *)
(* back with the results.                                                  *)
(*                                                                         *)
(* JavaScript strings are TLA+ strings and + is \o.  A value that may be   *)
(* undefined is a sequence of length 0 (undefined) or 1 (the value).       *)
(* Arrays that are shared by reference live in heap and are named by their *)
(* index in it.                                                            *)
(***************************************************************************)
EXTENDS Integers, Sequences, FiniteSets, TLC

VARIABLES
    config,     \* yui.locals.yui, the static configuration
    _map,       \* this._map, module name -> {group, path}
    heap,       \* the arrays created by exposeSeed (each call's seedCache)
    pc,         \* "idle": no call of exposeSeed is running; "loop"; "thrown"
    modules,    \* exposeSeed's local: the seed list
    filter,     \* exposeSeed's local: the suffix of unregistered modules
    seedCache,  \* exposeSeed's local: index in heap of the descriptor array
    stack,      \* exposeSeed's local: the fragments of the pending run
    prevGroup,  \* exposeSeed's local: the group of the last emitted module
    i,          \* exposeSeed's local: the loop index (1-based here)
    returned,   \* one record per finished call of exposeSeed: what it
                \* was called with, what it returned, the list it built
    requests,   \* res.locals of the requests the middlewares have served
    \* lib/yui.js
    yui_locals, \* whether yui.locals is set (config is yui.locals.yui, {} at first)
    YUI,        \* whether yui.YUI is set: require() of the yui package succeeded
    yuiCalls,   \* one record per call of yui(): what it threw, the state around it
    changes,    \* how many calls have changed the static configuration
    exposed,    \* one record per call of exposeConfig(): its configCache
    configRequests, \* res.locals of the requests the exposeConfig middlewares served
    \* lib/server.js
    groupsQueue,    \* the module-level groupsQueue: group name -> {modules}
    modulesQueue,   \* the module-level modulesQueue
    _Y,             \* this._Y: undefined, or the server Y instance
    serverCalls,    \* one record per call of registerModules, attachModules, use
    \* lib/hashfiles.js, one call of process()
    listing,    \* the entries fs.readdir finds in buildDir
    hstate,     \* "readdir": fs.readdir is pending; "hashing"; "thrown"
    count,      \* process's local: the hashfile calls not yet completed
    hashes,     \* process's local: pathname -> hash
    invalid,    \* process's local: pathname -> error code
    inFlight,   \* the pathnames whose hashfile callback is still to come
    callbacks   \* one record per invocation of process's callback argument

seedVars == <<config, _map, heap, pc, modules, filter, seedCache, stack,
              prevGroup, i, returned, requests>>

yuiVars == <<yui_locals, YUI, yuiCalls, changes, exposed, configRequests>>

serverVars == <<groupsQueue, modulesQueue, _Y, serverCalls>>

hashVars == <<listing, hstate, count, hashes, invalid, inFlight, callbacks>>

vars == <<seedVars, yuiVars, serverVars, hashVars>>

frame == <<modules, filter, seedCache, stack, prevGroup, i>>

-----------------------------------------------------------------------------
(* Bounds of the model.                                                    *)

\* The longest seed list of the resolution specification.
MaxSeedLen == 3
\* The longest seed list of the serving specification.
MaxServeSeedLen == 2
\* Calls of exposeSeed() in one run of the serving specification.
MaxCalls == 2
\* Requests served in one run of the serving specification.
MaxRequests == 2
\* Calls of yui() in one run.
MaxYuiCalls == 2
\* Calls that change the static configuration in one run.
MaxChanges == 1
\* Calls of exposeConfig() in one run.
MaxExposes == 1
\* Calls of registerModules, attachModules and use in one run.
MaxServerCalls == 3
\* The longest directory listing process() is run on.
MaxFiles == 3

-----------------------------------------------------------------------------
(* The configuration the runs are checked with.                            *)

\* names of the modules a seed list is made of: module names of the loader,
\* none of them the name of a property that every object inherits (the
\* code reads map[name] and groups[name] without hasOwnProperty)
ModuleNames == {"a", "b", "c", "d", "s", "x", "y", "yui-base"}

\* config.groups: app and lib are two groups with the same combo service,
\* cdn has another comboBase, alt another comboSep, static does not combine
\* (and has app's comboBase and comboSep all the same).
GroupCatalog ==
    [app    |-> [combine |-> TRUE,  comboBase |-> "/combo?", comboSep |-> "&",
                 base |-> "/app/", root |-> "app/"],
     lib    |-> [combine |-> TRUE,  comboBase |-> "/combo?", comboSep |-> "&",
                 base |-> "/lib/", root |-> "lib/"],
     cdn    |-> [combine |-> TRUE,  comboBase |-> "//cdn/combo?", comboSep |-> "&",
                 base |-> "//cdn/", root |-> "cdn/"],
     alt    |-> [combine |-> TRUE,  comboBase |-> "/combo?", comboSep |-> ";",
                 base |-> "/alt/", root |-> "alt/"],
     static |-> [combine |-> FALSE, comboBase |-> "/combo?", comboSep |-> "&",
                 base |-> "/static/", root |-> "static/"]]

\* this._map: x names a group config.groups does not have, y has no path,
\* yui-base is not registered.
ModuleMap ==
    [a |-> [group |-> "app",    path |-> "a.js"],
     b |-> [group |-> "lib",    path |-> "b.js"],
     c |-> [group |-> "cdn",    path |-> "c.js"],
     d |-> [group |-> "alt",    path |-> "d.js"],
     s |-> [group |-> "static", path |-> "s.js"],
     x |-> [group |-> "gone",   path |-> "x.js"],
     y |-> [group |-> "app",    path |-> ""]]

\* the values of config.filter: unset, the three known ones, an unknown one
FilterValues == {<<>>, <<"raw">>, <<"min">>, <<"debug">>, <<"fast">>}

RECURSIVE SeqsUpTo(_, _)
\* the sequences over S of length at most n
SeqsUpTo(S, n) ==
    IF n = 0 THEN {<<>>}
    ELSE LET shorter == SeqsUpTo(S, n - 1)
         IN  shorter \cup {Append(q, e) : q \in {r \in shorter : Len(r) = n - 1}, e \in S}

\* the static configuration with the given seed, filter and top-level combine
StaticConfig(seed, flt, combine) ==
    [seed |-> seed, filter |-> flt, groups |-> GroupCatalog,
     combine |-> combine, comboBase |-> "/combo?", comboSep |-> "&",
     base |-> "/yui/", root |-> "yui/"]

-----------------------------------------------------------------------------
(* lib/seed.js                                                             *)

FILTERS_MAP == [raw |-> "", min |-> "-min", debug |-> "-debug"]

DEFAULT_FILTER == "-min"

getDefaultSeed == <<"yui-base">>

\* config.seed || this.getDefaultSeed(): an array, even an empty one, is truthy
seedModules(cfg) == IF cfg.seed # <<>> THEN cfg.seed[1] ELSE getDefaultSeed

\* FILTERS_MAP[config.filter] || '': no own-property test, raw by default
computeFilterDefaultRaw(cfg) ==
    IF cfg.filter # <<>> /\ cfg.filter[1] \in DOMAIN FILTERS_MAP
    THEN FILTERS_MAP[cfg.filter[1]]
    ELSE ""

\* config.filter && FILTERS_MAP.hasOwnProperty(config.filter) ? ... : ...
computeFilter(cfg) ==
    IF cfg.filter # <<>> /\ cfg.filter[1] # "" /\ cfg.filter[1] \in DOMAIN FILTERS_MAP
    THEN FILTERS_MAP[cfg.filter[1]]
    ELSE DEFAULT_FILTER

\* the fields of an object that exposeSeed reads when it uses it as a group
asGroup(o) ==
    [combine |-> o.combine, comboBase |-> o.comboBase, comboSep |-> o.comboSep,
     base |-> o.base, root |-> o.root]

\* the loop's resolution of modules[i] to its group (undefined: <<>>) and path
resolve(m, cfg, map, flt) ==
    IF m \in DOMAIN map
    THEN [group |-> IF map[m].group \in DOMAIN cfg.groups
                    THEN <<asGroup(cfg.groups[map[m].group])>>
                    ELSE <<>>,
          path  |-> map[m].path]
    ELSE [group |-> <<asGroup(cfg)>>,
          path  |-> m \o "/" \o m \o flt \o ".js"]

\* a resolution with the group only: the check of the path forgotten
resolvedGroupOnly(r) == r.group # <<>>

\* path && group
resolved(r) == r.path # "" /\ r.group # <<>>

RECURSIVE joinReversed(_, _)
\* join over an array filled with unshift instead of push
joinReversed(arr, sep) ==
    IF Len(arr) = 0 THEN ""
    ELSE IF Len(arr) = 1 THEN arr[1]
    ELSE joinReversed(Tail(arr), sep) \o sep \o arr[1]

RECURSIVE join(_, _)
\* Array.prototype.join
join(arr, sep) ==
    IF Len(arr) = 0 THEN ""
    ELSE IF Len(arr) = 1 THEN arr[1]
    ELSE arr[1] \o sep \o join(Tail(arr), sep)

\* isSimilarGroup without the two tests of combine
isSimilarGroupIgnoringCombine(newGroup, prev) ==
    /\ newGroup # <<>>
    /\ prev # <<>>
    /\ newGroup[1].comboBase = prev[1].comboBase
    /\ newGroup[1].comboSep = prev[1].comboSep

\* isSimilarGroup without the comparison of comboSep
isSimilarGroupIgnoringSep(newGroup, prev) ==
    /\ newGroup # <<>>
    /\ newGroup[1].combine
    /\ prev # <<>>
    /\ prev[1].combine
    /\ newGroup[1].comboBase = prev[1].comboBase

isSimilarGroup(newGroup, prev) ==
    /\ newGroup # <<>>
    /\ newGroup[1].combine
    /\ prev # <<>>
    /\ prev[1].combine
    /\ newGroup[1].comboBase = prev[1].comboBase
    /\ newGroup[1].comboSep = prev[1].comboSep

\* a flush that pushes the descriptor and leaves the fragments on the stack
flushKeepingStack(cache, stk, prev) ==
    IF Len(stk) > 0
    THEN IF prev = <<>>
         THEN [throws |-> TRUE, cache |-> cache, stack |-> stk]
         ELSE [throws |-> FALSE,
               cache  |-> Append(cache,
                              [src |-> prev[1].comboBase \o join(stk, prev[1].comboSep)]),
               stack  |-> stk]
    ELSE [throws |-> FALSE, cache |-> cache, stack |-> stk]

\* flush(): the descriptor array and the stack after it; reading comboBase
\* of an undefined prevGroup throws a TypeError
flush(cache, stk, prev) ==
    IF Len(stk) > 0
    THEN IF prev = <<>>
         THEN [throws |-> TRUE, cache |-> cache, stack |-> stk]
         ELSE [throws |-> FALSE,
               cache  |-> Append(cache,
                              [src |-> prev[1].comboBase \o join(stk, prev[1].comboSep)]),
               stack  |-> <<>>]
    ELSE [throws |-> FALSE, cache |-> cache, stack |-> <<>>]

\* a single descriptor built from the group's root instead of its base
singleFromRoot(group, path) == [src |-> group.root \o path]

\* {src: group.base + path}
single(group, path) == [src |-> group.base \o path]

\* group.root + path
fragment(group, path) == group.root \o path

\* a loop body whose flush reads its newGroup argument: the pending run is
\* closed with the comboBase and comboSep of the incoming group
emitClosingWithIncoming(r, cache, stk, prev) ==
    LET fl == IF isSimilarGroup(r.group, prev)
              THEN [throws |-> FALSE, cache |-> cache, stack |-> stk]
              ELSE flush(cache, stk, r.group)
    IN  IF fl.throws
        THEN [throws |-> TRUE, cache |-> cache, stack |-> stk, prevGroup |-> prev]
        ELSE IF r.group[1].combine
        THEN [throws |-> FALSE, cache |-> fl.cache,
              stack |-> Append(fl.stack, fragment(r.group[1], r.path)),
              prevGroup |-> r.group]
        ELSE [throws |-> FALSE,
              cache |-> Append(fl.cache, single(r.group[1], r.path)),
              stack |-> fl.stack,
              prevGroup |-> r.group]

\* the loop body for a resolved module: flush unless the group continues the
\* pending run, then push the fragment or the single descriptor
emit(r, cache, stk, prev) ==
    LET fl == IF isSimilarGroup(r.group, prev)
              THEN [throws |-> FALSE, cache |-> cache, stack |-> stk]
              ELSE flush(cache, stk, prev)
    IN  IF fl.throws
        THEN [throws |-> TRUE, cache |-> cache, stack |-> stk, prevGroup |-> prev]
        ELSE IF r.group[1].combine
        THEN [throws |-> FALSE, cache |-> fl.cache,
              stack |-> Append(fl.stack, fragment(r.group[1], r.path)),
              prevGroup |-> r.group]
        ELSE [throws |-> FALSE,
              cache |-> Append(fl.cache, single(r.group[1], r.path)),
              stack |-> fl.stack,
              prevGroup |-> r.group]

\* a skip that closes the pending run: flush() before the console.warn
skipClosingRun(r, cache, stk, prev) ==
    LET fl == flush(cache, stk, prev)
    IN  [throws |-> fl.throws, cache |-> fl.cache, stack |-> fl.stack,
         prevGroup |-> prev]

\* a skip with prevGroup = group moved after the if/else
skipSettingPrevGroup(r, cache, stk, prev) ==
    [throws |-> FALSE, cache |-> cache, stack |-> stk, prevGroup |-> r.group]

\* the loop body for a module that does not resolve: console.warn, no more
skip(r, cache, stk, prev) ==
    [throws |-> FALSE, cache |-> cache, stack |-> stk, prevGroup |-> prev]

\* a return value without the test of seedCache.length
returnValueAlwaysMiddleware(cache, ref) == [type |-> "function", seedCache |-> ref]

\* the value exposeSeed returns: the middleware closed over seedCache, or false
returnValue(cache, ref) ==
    IF Len(cache) > 0
    THEN [type |-> "function", seedCache |-> ref]
    ELSE [type |-> "boolean", value |-> FALSE]

\* exposeSeed() with seedCache kept at module level: created once, then reused
exposeSeed_enterSharedCache ==
    /\ pc = "idle"
    /\ pc' = "loop"
    /\ modules' = seedModules(config)
    /\ heap' = IF heap = <<>> THEN <<(<<>>)>> ELSE heap
    /\ seedCache' = 1
    /\ prevGroup' = <<>>
    /\ stack' = <<>>
    /\ filter' = computeFilter(config)
    /\ i' = 1
    /\ UNCHANGED <<config, _map, returned, requests>>
    /\ UNCHANGED <<yuiVars, serverVars, hashVars>>

\* exposeSeed() is called: its locals are initialised, seedCache is a new array
exposeSeed_enter ==
    /\ pc = "idle"
    /\ pc' = "loop"
    /\ modules' = seedModules(config)
    /\ heap' = Append(heap, <<>>)
    /\ seedCache' = Len(heap) + 1
    /\ prevGroup' = <<>>
    /\ stack' = <<>>
    /\ filter' = computeFilter(config)
    /\ i' = 1
    /\ UNCHANGED <<config, _map, returned, requests>>
    /\ UNCHANGED <<yuiVars, serverVars, hashVars>>

\* one iteration of the for loop
exposeSeed_iterate ==
    /\ pc = "loop"
    /\ i <= Len(modules)
    /\ LET r   == resolve(modules[i], config, _map, filter)
           res == IF resolved(r)
                  THEN emit(r, heap[seedCache], stack, prevGroup)
                  ELSE skip(r, heap[seedCache], stack, prevGroup)
       IN  IF res.throws
           THEN /\ pc' = "thrown"
                /\ UNCHANGED <<heap, stack, prevGroup, i>>
           ELSE /\ pc' = "loop"
                /\ heap' = [heap EXCEPT ![seedCache] = res.cache]
                /\ stack' = res.stack
                /\ prevGroup' = res.prevGroup
                /\ i' = i + 1
    /\ UNCHANGED <<config, _map, modules, filter, seedCache, returned, requests>>
    /\ UNCHANGED <<yuiVars, serverVars, hashVars>>

\* after the loop: the last flush, and the return
exposeSeed_return ==
    /\ pc = "loop"
    /\ i > Len(modules)
    /\ LET fl == flush(heap[seedCache], stack, prevGroup)
       IN  IF fl.throws
           THEN /\ pc' = "thrown"
                /\ UNCHANGED <<heap, stack, returned>>
           ELSE /\ pc' = "idle"
                /\ stack' = fl.stack
                /\ heap' = [heap EXCEPT ![seedCache] = fl.cache]
                /\ returned' = Append(returned,
                                  [config |-> config, map |-> _map,
                                   value  |-> returnValue(fl.cache, seedCache),
                                   list   |-> fl.cache])
    /\ UNCHANGED <<config, _map, modules, filter, seedCache, prevGroup, i, requests>>
    /\ UNCHANGED <<yuiVars, serverVars, hashVars>>

\* the middleware exposeSeed returned to call n serves a request:
\* res.locals.yui_seed = seedCache, the array itself, then next()
middleware(n) ==
    /\ pc = "idle"
    /\ n \in 1..Len(returned)
    /\ returned[n].value.type = "function"
    /\ requests' = Append(requests,
                      [by |-> n, yui_seed |-> returned[n].value.seedCache,
                       got |-> heap[returned[n].value.seedCache],
                       changed |-> FALSE])
    /\ UNCHANGED <<config, _map, heap, pc, frame, returned>>
    /\ UNCHANGED <<yuiVars, serverVars, hashVars>>

\* the route handler after the middleware, for one that changes the list it
\* finds in res.locals.yui_seed: res.locals.yui_seed.push({src: ...})
handler(r) ==
    /\ pc = "idle"
    /\ r \in 1..Len(requests)
    /\ ~requests[r].changed
    /\ heap' = [heap EXCEPT ![requests[r].yui_seed] = Append(@, [src |-> "/extra.js"])]
    /\ requests' = [requests EXCEPT ![r].changed = TRUE]
    /\ UNCHANGED <<config, _map, pc, frame, returned>>
    /\ UNCHANGED <<yuiVars, serverVars, hashVars>>

-----------------------------------------------------------------------------
(* lib/utils.js, as lib/yui.js and lib/server.js call it.  Objects are     *)
(* functions from property names to values; {} is the empty function.      *)

\* utils.extend(obj, supplier): supplier's own properties are set on obj
extend(obj, supplier) ==
    [k \in DOMAIN obj \cup DOMAIN supplier |->
        IF k \in DOMAIN supplier THEN supplier[k] ELSE obj[k]]

\* utils.clone(obj): a copy that shares nothing with obj (a value here)
clone(obj) == obj

\* utils.serialize(obj): the text that evaluates to obj
serialize(obj) == [text |-> obj]

-----------------------------------------------------------------------------
(* lib/yui.js                                                              *)

\* the message of the error of a second call (its backquotes left out)
MultipleAttempts ==
    "Multiple attemps to call yui().Only one yui is allow per app."

RequireFailed == "Error trying to require() yui"

\* yui.version, the version of the yui package that was required
YuiVersion == "3.x"

\* this.YUI.Env.core, the core modules of the yui package that was required
getDefaultCore == <<"get">>

\* the configurations yui() is called with
YuiConfigs ==
    {StaticConfig(list, <<>>, TRUE) : list \in {<<>>, <<(<<"a">>)>>}}

\* the suppliers applyConfig() is called with: no combo at the top level, a
\* catalog whose only group does not combine, another filter
Suppliers ==
    {[combine |-> FALSE],
     [groups |-> [app |-> GroupCatalog.static]],
     [filter |-> <<"raw">>]}

\* the per-request settings a request carries in res.locals.yui, if any
Overrides == {<<>>, <<[lang |-> "en"]>>}

\* the seed lists seed() is called with
SeedArgs == {<<"b">>, <<"a", "s">>}

\* yui() without the test of yui.locals: every call initialises again
yuiReinitialising(cfg, found) ==
    /\ pc = "idle"
    /\ yui_locals' = TRUE
    /\ IF found
       THEN /\ YUI' = TRUE
            /\ config' = LET c == extend(IF yui_locals THEN config ELSE <<>>, cfg)
                         IN  extend(c, [version |-> IF "version" \in DOMAIN c
                                                    THEN c.version ELSE YuiVersion])
            /\ yuiCalls' = Append(yuiCalls, [threw |-> ""])
       ELSE /\ YUI' = YUI
            /\ config' = extend(IF yui_locals THEN config ELSE <<>>, cfg)
            /\ yuiCalls' = Append(yuiCalls, [threw |-> RequireFailed])
    /\ UNCHANGED <<_map, heap, pc, frame, returned, requests>>
    /\ UNCHANGED <<changes, exposed, configRequests, serverVars, hashVars>>

\* yui(config, path): throws when yui.locals is set; else sets yui.locals,
\* mixes config into the static configuration, requires the yui package
\* (found: whether require() finds it) and sets yui.YUI and config.version
yui(cfg, found) ==
    /\ pc = "idle"
    /\ IF yui_locals
       THEN /\ yuiCalls' = Append(yuiCalls, [threw |-> MultipleAttempts])
            /\ UNCHANGED <<yui_locals, YUI, config>>
       ELSE /\ yui_locals' = TRUE
            /\ IF found
               THEN /\ YUI' = TRUE
                    /\ config' = LET c == extend(<<>>, cfg)
                                 IN  extend(c, [version |-> IF "version" \in DOMAIN c
                                                            THEN c.version ELSE YuiVersion])
                    /\ yuiCalls' = Append(yuiCalls, [threw |-> ""])
               ELSE /\ YUI' = YUI
                    /\ config' = extend(<<>>, cfg)
                    /\ yuiCalls' = Append(yuiCalls, [threw |-> RequireFailed])
    /\ UNCHANGED <<_map, heap, pc, frame, returned, requests>>
    /\ UNCHANGED <<changes, exposed, configRequests, serverVars, hashVars>>

\* yui.applyConfig(supplier), and yui.config(supplier): the supplier is mixed
\* into the static configuration, in place (without yui.locals it throws)
applyConfig(supplier) ==
    /\ pc = "idle"
    /\ yui_locals
    /\ config' = extend(config, supplier)
    /\ changes' = changes + 1
    /\ UNCHANGED <<_map, heap, pc, frame, returned, requests>>
    /\ UNCHANGED <<yui_locals, YUI, yuiCalls, exposed, configRequests>>
    /\ UNCHANGED <<serverVars, hashVars>>

\* yui.debugMode(config): yui.config({debug, logLevel, filter}, config)
debugMode(cfg) ==
    /\ pc = "idle"
    /\ yui_locals
    /\ config' = LET on == extend(config, [debug |-> TRUE, logLevel |-> "debug",
                                           filter |-> <<"debug">>])
                 IN  IF cfg = <<>> THEN on ELSE extend(on, cfg[1])
    /\ changes' = changes + 1
    /\ UNCHANGED <<_map, heap, pc, frame, returned, requests>>
    /\ UNCHANGED <<yui_locals, YUI, yuiCalls, exposed, configRequests>>
    /\ UNCHANGED <<serverVars, hashVars>>

\* seed(modules): this.config({seed: modules})
seed(mods) ==
    /\ pc = "idle"
    /\ yui_locals
    /\ config' = extend(config, [seed |-> <<mods>>])
    /\ changes' = changes + 1
    /\ UNCHANGED <<_map, heap, pc, frame, returned, requests>>
    /\ UNCHANGED <<yui_locals, YUI, yuiCalls, exposed, configRequests>>
    /\ UNCHANGED <<serverVars, hashVars>>

\* addModuleToSeed(moduleName): the name is pushed on config.seed and on
\* config.core, each created from its default when it is not set; without
\* yui.YUI the default core cannot be read and the call throws after the
\* seed was changed
addModuleToSeed(moduleName) ==
    /\ pc = "idle"
    /\ yui_locals
    /\ LET seeded == extend(config,
                         [seed |-> <<Append(seedModules(config), moduleName)>>])
       IN  IF "core" \in DOMAIN config
           THEN config' = extend(seeded, [core |-> Append(config.core, moduleName)])
           ELSE IF YUI
           THEN config' = extend(seeded, [core |-> Append(getDefaultCore, moduleName)])
           ELSE config' = seeded
    /\ changes' = changes + 1
    /\ UNCHANGED <<_map, heap, pc, frame, returned, requests>>
    /\ UNCHANGED <<yui_locals, YUI, yuiCalls, exposed, configRequests>>
    /\ UNCHANGED <<serverVars, hashVars>>

\* yui.exposeConfig(): config is the reference to the static configuration,
\* configCache its text at the time of the call (at: that configuration)
exposeConfig ==
    /\ pc = "idle"
    /\ yui_locals
    /\ exposed' = Append(exposed, [configCache |-> serialize(config), at |-> config])
    /\ UNCHANGED <<seedVars, yui_locals, YUI, yuiCalls, changes, configRequests>>
    /\ UNCHANGED <<serverVars, hashVars>>

\* the middleware exposeConfig returned to call n serves a request whose
\* res.locals.yui is overrides: configCache, or with overrides the text of
\* the clone of config mixed with them
exposeConfig_middleware(n, overrides) ==
    /\ pc = "idle"
    /\ n \in 1..Len(exposed)
    /\ configRequests' =
          Append(configRequests,
                 [by |-> n, yui |-> overrides,
                  yui_config |-> IF overrides # <<>>
                                 THEN serialize(extend(clone(config), overrides[1]))
                                 ELSE exposed[n].configCache])
    /\ UNCHANGED <<seedVars, yui_locals, YUI, yuiCalls, changes, exposed>>
    /\ UNCHANGED <<serverVars, hashVars>>

-----------------------------------------------------------------------------
(* lib/server.js                                                           *)

\* the group names registerModules is called with: gone is no group of
\* config.groups
ServerGroups == {"app", "gone"}

\* the modules meta registerModules is called with, as the module names
ServerGroupModules == {{"m1"}, {"m1", "m2"}}

\* the lists attachModules is called with: none, or a list
AttachArgs == {<<>>, <<(<<"m1">>)>>, <<(<<"m2", "m1">>)>>}

\* the module arguments use() is called with
UseArgs == {<<>>, <<"m3">>}

\* this._groupFolderMap[groupName], the folder a group was registered with
_groupFolderMap(groupName) == "/build/" \o groupName

\* modules.concat(modulesQueue): the new modules in front of the queued ones
concatInFront(queue, mods) == mods \o queue

\* modulesQueue.concat(mods)
concat(queue, mods) == queue \o mods

\* Y.use(list) on the instance y: the list is handed to the loader, which
\* attaches its modules
Y_use(y, list) ==
    [y EXCEPT !.used = Append(@, list),
              !._attached = @ \cup {list[k] : k \in 1..Len(list)}]

\* the record of a call in serverCalls
ServerCall(op, group, mods, handed) ==
    [op |-> op, group |-> group, mods |-> mods, hadY |-> _Y # <<>>,
     handed |-> handed,
     groups |-> IF _Y' = <<>> THEN {} ELSE DOMAIN _Y'[1].groups]

\* registerModules(groupName, groupModules): the group is queued; the
\* modules of it that the instance has attached are forgotten
registerModules(groupName, groupModules) ==
    /\ groupsQueue' = [g \in DOMAIN groupsQueue \cup {groupName} |->
                          IF g = groupName THEN [modules |-> groupModules]
                          ELSE groupsQueue[g]]
    /\ _Y' = IF _Y # <<>> /\ YUI
             THEN <<[_Y[1] EXCEPT !._attached = @ \ groupModules]>>
             ELSE _Y
    /\ serverCalls' = Append(serverCalls,
                             ServerCall("registerModules", groupName, <<>>, <<>>))
    /\ UNCHANGED <<modulesQueue, seedVars, yuiVars, hashVars>>

\* attachModules(mods): the modules are queued, and with an instance the
\* queue is handed to Y.use and emptied
attachModules(mods) ==
    LET queue == concat(modulesQueue, IF mods = <<>> THEN <<>> ELSE mods[1])
    IN  /\ IF _Y # <<>>
           THEN /\ _Y' = <<Y_use(_Y[1], queue)>>
                /\ modulesQueue' = <<>>
                /\ serverCalls' = Append(serverCalls,
                       ServerCall("attachModules", "",
                                  IF mods = <<>> THEN <<>> ELSE mods[1], <<queue>>))
           ELSE /\ _Y' = _Y
                /\ modulesQueue' = queue
                /\ serverCalls' = Append(serverCalls,
                       ServerCall("attachModules", "",
                                  IF mods = <<>> THEN <<>> ELSE mods[1], <<>>))
        /\ UNCHANGED <<groupsQueue, seedVars, yuiVars, hashVars>>

\* use(modules...): the queued groups that config.groups has are applied to
\* the configuration of the instance, which is created when there is none;
\* the queue and the arguments are handed to Y.use; both queues are emptied
use(mods) ==
    LET names == {g \in DOMAIN groupsQueue : g \in DOMAIN config.groups}
        obj   == IF names = {} THEN <<>>
                 ELSE <<[groups |-> [g \in names |->
                            extend(extend(groupsQueue[g], clone(config.groups[g])),
                                   [base |-> _groupFolderMap(g) \o "/",
                                    combine |-> FALSE])],
                         useSync |-> TRUE]>>
        Y     == IF _Y = <<>>
                 THEN [groups |-> IF obj = <<>> THEN <<>> ELSE obj[1].groups,
                       used |-> <<>>, _attached |-> {}]
                 ELSE IF obj # <<>>
                 THEN [_Y[1] EXCEPT !.groups = extend(@, obj[1].groups)]
                 ELSE _Y[1]
        queue == concat(modulesQueue, mods)
    IN  /\ yui_locals /\ YUI
        /\ _Y' = IF Len(queue) > 0 THEN <<Y_use(Y, queue)>> ELSE <<Y>>
        /\ modulesQueue' = <<>>
        /\ groupsQueue' = <<>>
        /\ serverCalls' = Append(serverCalls,
               ServerCall("use", "", mods,
                          IF Len(queue) > 0 THEN <<queue>> ELSE <<>>))
        /\ UNCHANGED <<seedVars, yuiVars, hashVars>>

-----------------------------------------------------------------------------
(* lib/hashfiles.js                                                        *)

\* the entries of the build directory
Items == {"moduleA", "moduleB", "moduleC", "junk"}

\* the suffix process() is called with
HashSuffix == "-min.js"

\* path.join(dir, item, item + suffix)
pathnameOf(item) == "build/" \o item \o "/" \o item \o HashSuffix

\* the directory listings: no entry twice
Listings ==
    {q \in SeqsUpTo(Items, MaxFiles) : \A j, k \in 1..Len(q) : q[j] = q[k] => j = k}

\* afterHash(err, hash, pathname) on the locals st of process: the result is
\* filed under hashes or invalid, and the callback is invoked when the
\* decremented count is 0
afterHash(st, failed, pathname) ==
    LET h == IF failed THEN st.hashes
             ELSE (pathname :> "hash of " \o pathname) @@ st.hashes
        v == IF failed THEN (pathname :> "ENOTDIR") @@ st.invalid
             ELSE st.invalid
        c == st.count - 1
    IN  [count |-> c, hashes |-> h, invalid |-> v,
         inFlight |-> st.inFlight \ {pathname},
         callbacks |-> IF c = 0
                       THEN Append(st.callbacks,
                                   [err |-> FALSE, hashes |-> h, invalid |-> v])
                       ELSE st.callbacks]

\* eachFile(dir, suffix, cb)(item): count++, then hashfile(pathname, algo, cb),
\* which calls cb later, or at once (now) with an error or a hash
eachFile(st, item, now, failed) ==
    LET started == [st EXCEPT !.count = @ + 1,
                              !.inFlight = @ \cup {pathnameOf(item)}]
    IN  IF now THEN afterHash(started, failed, pathnameOf(item)) ELSE started

RECURSIVE forEach(_, _, _, _, _)
\* files.forEach(eachFile(...)) from entry k on; the hashfile calls of the
\* entries in now call back at once, those in failing with an error
forEach(files, k, st, now, failing) ==
    IF k > Len(files) THEN st
    ELSE forEach(files, k + 1,
                 eachFile(st, files[k], files[k] \in now, files[k] \in failing),
                 now, failing)

\* afterReaddir(err, files): with an error the callback is invoked and
\* files.forEach throws, files being undefined; else every entry is started
afterReaddir(err, now, failing) ==
    /\ hstate = "readdir"
    /\ IF err
       THEN /\ callbacks' = Append(callbacks,
                                   [err |-> TRUE, hashes |-> <<>>, invalid |-> <<>>])
            /\ hstate' = "thrown"
            /\ UNCHANGED <<count, hashes, invalid, inFlight>>
       ELSE LET st == forEach(listing, 1,
                              [count |-> count, hashes |-> hashes,
                               invalid |-> invalid, inFlight |-> inFlight,
                               callbacks |-> callbacks],
                              now, failing)
            IN  /\ hstate' = "hashing"
                /\ count' = st.count
                /\ hashes' = st.hashes
                /\ invalid' = st.invalid
                /\ inFlight' = st.inFlight
                /\ callbacks' = st.callbacks
    /\ UNCHANGED <<listing, seedVars, yuiVars, serverVars>>

\* a hashfile call that did not call back at once completes: afterHash
hashfile_done(pathname, failed) ==
    /\ hstate = "hashing"
    /\ pathname \in inFlight
    /\ LET st == afterHash([count |-> count, hashes |-> hashes,
                            invalid |-> invalid, inFlight |-> inFlight,
                            callbacks |-> callbacks], failed, pathname)
       IN  /\ count' = st.count
           /\ hashes' = st.hashes
           /\ invalid' = st.invalid
           /\ inFlight' = st.inFlight
           /\ callbacks' = st.callbacks
    /\ UNCHANGED <<listing, hstate, seedVars, yuiVars, serverVars>>

-----------------------------------------------------------------------------
(* The parts of the state a specification does not run.                    *)

\* yui() was called and found the yui package; nothing else was called
yuiConstructed ==
    /\ yui_locals = TRUE
    /\ YUI = TRUE
    /\ yuiCalls = <<>>
    /\ changes = 0
    /\ exposed = <<>>
    /\ configRequests = <<>>

\* lib/server.js was loaded: empty queues, no instance
serverLoaded ==
    /\ groupsQueue = <<>>
    /\ modulesQueue = <<>>
    /\ _Y = <<>>
    /\ serverCalls = <<>>

\* process() is not running
hashIdle ==
    /\ listing = <<>>
    /\ hstate = "idle"
    /\ count = 0
    /\ hashes = <<>>
    /\ invalid = <<>>
    /\ inFlight = {}
    /\ callbacks = <<>>

\* no call of exposeSeed has run on the module map
seedIdle ==
    /\ _map = ModuleMap
    /\ heap = <<>>
    /\ pc = "idle"
    /\ modules = <<>>
    /\ filter = ""
    /\ seedCache = 0
    /\ stack = <<>>
    /\ prevGroup = <<>>
    /\ i = 0
    /\ returned = <<>>
    /\ requests = <<>>

-----------------------------------------------------------------------------
(* The resolution specification: one call of exposeSeed() on every         *)
(* configuration of the bounded input space.                               *)

Init ==
    /\ \E list \in {<<>>} \cup {<<q>> : q \in SeqsUpTo(ModuleNames, MaxSeedLen)},
          flt \in FilterValues, combine \in BOOLEAN :
            config = StaticConfig(list, flt, combine)
    /\ _map = ModuleMap
    /\ heap = <<>>
    /\ pc = "idle"
    /\ modules = <<>>
    /\ filter = ""
    /\ seedCache = 0
    /\ stack = <<>>
    /\ prevGroup = <<>>
    /\ i = 0
    /\ returned = <<>>
    /\ requests = <<>>
    /\ yuiConstructed
    /\ serverLoaded
    /\ hashIdle

Next ==
    \/ Len(returned) = 0 /\ exposeSeed_enter
    \/ exposeSeed_iterate
    \/ exposeSeed_return

Spec == Init /\ [][Next]_vars

-----------------------------------------------------------------------------
(* The serving specification: exposeSeed() is called up to MaxCalls times  *)
(* on one configuration, the middlewares it returned serve requests, and   *)
(* the route handlers behind them may change the list they are given.      *)
(* Node runs one callback at a time: no request is served while a call of  *)
(* exposeSeed is running.                                                  *)

\* the modules of the seed lists of the serving specification
ServeModuleNames == {"a", "b", "s", "x", "yui-base"}

InitServe ==
    /\ \E list \in {<<>>} \cup {<<q>> : q \in SeqsUpTo(ServeModuleNames, MaxServeSeedLen)},
          combine \in BOOLEAN :
            config = StaticConfig(list, <<>>, combine)
    /\ _map = ModuleMap
    /\ heap = <<>>
    /\ pc = "idle"
    /\ modules = <<>>
    /\ filter = ""
    /\ seedCache = 0
    /\ stack = <<>>
    /\ prevGroup = <<>>
    /\ i = 0
    /\ returned = <<>>
    /\ requests = <<>>
    /\ yuiConstructed
    /\ serverLoaded
    /\ hashIdle

NextServe ==
    \/ Len(returned) < MaxCalls /\ exposeSeed_enter
    \/ exposeSeed_iterate
    \/ exposeSeed_return
    \/ \E n \in 1..Len(returned) : Len(requests) < MaxRequests /\ middleware(n)
    \/ \E r \in 1..Len(requests) : handler(r)

SpecServe == InitServe /\ [][NextServe]_vars

-----------------------------------------------------------------------------
(* The configuration specification: yui() is called, the static            *)
(* configuration is changed, exposeConfig() is called and its middleware   *)
(* serves requests, in any order.                                          *)

InitYui ==
    /\ config = <<>>
    /\ seedIdle
    /\ yui_locals = FALSE
    /\ YUI = FALSE
    /\ yuiCalls = <<>>
    /\ changes = 0
    /\ exposed = <<>>
    /\ configRequests = <<>>
    /\ serverLoaded
    /\ hashIdle

NextYui ==
    \/ \E cfg \in YuiConfigs, found \in BOOLEAN :
          Len(yuiCalls) < MaxYuiCalls /\ yui(cfg, found)
    \/ \E supplier \in Suppliers : changes < MaxChanges /\ applyConfig(supplier)
    \/ \E cfg \in {<<>>, <<[logLevel |-> "warn"]>>} :
          changes < MaxChanges /\ debugMode(cfg)
    \/ \E mods \in SeedArgs : changes < MaxChanges /\ seed(mods)
    \/ \E m \in {"s"} : changes < MaxChanges /\ addModuleToSeed(m)
    \/ Len(exposed) < MaxExposes /\ exposeConfig
    \/ \E n \in 1..Len(exposed), overrides \in Overrides :
          Len(configRequests) < MaxRequests /\ exposeConfig_middleware(n, overrides)

SpecYui == InitYui /\ [][NextYui]_vars

-----------------------------------------------------------------------------
(* The reconfiguration specification: on a constructed yui, exposeSeed()   *)
(* is called, its middlewares serve requests whose handlers may change the *)
(* list, and the static configuration is changed, in any order.            *)

InitReconfigure ==
    /\ \E list \in {<<>>, <<(<<"a">>)>>} : config = StaticConfig(list, <<>>, TRUE)
    /\ seedIdle
    /\ yuiConstructed
    /\ serverLoaded
    /\ hashIdle

NextReconfigure ==
    \/ Len(returned) < MaxCalls /\ exposeSeed_enter
    \/ exposeSeed_iterate
    \/ exposeSeed_return
    \/ \E n \in 1..Len(returned) : Len(requests) < MaxRequests /\ middleware(n)
    \/ \E r \in 1..Len(requests) : handler(r)
    \/ \E supplier \in Suppliers : changes < MaxChanges /\ applyConfig(supplier)
    \/ changes < MaxChanges /\ debugMode(<<>>)
    \/ \E mods \in SeedArgs : changes < MaxChanges /\ seed(mods)
    \/ \E m \in {"s"} : changes < MaxChanges /\ addModuleToSeed(m)

SpecReconfigure == InitReconfigure /\ [][NextReconfigure]_vars

-----------------------------------------------------------------------------
(* The server specification: registerModules, attachModules and use are    *)
(* called in any order on a constructed yui.                               *)

InitServer ==
    /\ config = StaticConfig(<<>>, <<>>, TRUE)
    /\ seedIdle
    /\ yuiConstructed
    /\ serverLoaded
    /\ hashIdle

NextServer ==
    \/ \E g \in ServerGroups, ms \in ServerGroupModules :
          Len(serverCalls) < MaxServerCalls /\ registerModules(g, ms)
    \/ \E mods \in AttachArgs :
          Len(serverCalls) < MaxServerCalls /\ attachModules(mods)
    \/ \E mods \in UseArgs : Len(serverCalls) < MaxServerCalls /\ use(mods)

SpecServer == InitServer /\ [][NextServer]_vars

-----------------------------------------------------------------------------
(* The hashing specification: one call of process() on every listing, its  *)
(* hashfile calls completing at once or later, in any order.               *)

InitHash ==
    /\ config = StaticConfig(<<>>, <<>>, TRUE)
    /\ seedIdle
    /\ yuiConstructed
    /\ serverLoaded
    /\ listing \in Listings
    /\ hstate = "readdir"
    /\ count = 0
    /\ hashes = <<>>
    /\ invalid = <<>>
    /\ inFlight = {}
    /\ callbacks = <<>>

NextHash ==
    \/ \E err \in BOOLEAN, now \in SUBSET Items :
          \E failing \in SUBSET now : afterReaddir(err, now, failing)
    \/ \E pathname \in inFlight, failed \in BOOLEAN : hashfile_done(pathname, failed)

SpecHash == InitHash /\ [][NextHash]_vars

-----------------------------------------------------------------------------
(* What the claims are stated with.  A finished call is a record of        *)
(* returned: the configuration it ran on, its return value and the         *)
(* descriptor list it built.                                               *)

\* the seed list a call works on: config.seed, or the default seed
SeedOf(rec) == IF rec.config.seed = <<>> THEN <<"yui-base">> ELSE rec.config.seed[1]

\* the suffix the filter stands for: min unless it is raw or debug
Suffix(cfg) ==
    IF cfg.filter = <<"raw">> THEN ""
    ELSE IF cfg.filter = <<"debug">> THEN "-debug"
    ELSE "-min"

\* a module resolves unless it is registered with a group the catalog does
\* not have or with no path
Resolvable(m, cfg, map) ==
    m \in DOMAIN map => (map[m].group \in DOMAIN cfg.groups /\ map[m].path # "")

\* the {group, path} entry of a resolvable module: a registered module has
\* its group's descriptor and its explicit path, any other the top-level
\* config and name/name<suffix>.js
EntryOf(m, cfg, map) ==
    IF m \in DOMAIN map
    THEN [group |-> asGroup(cfg.groups[map[m].group]), path |-> map[m].path]
    ELSE [group |-> asGroup(cfg), path |-> m \o "/" \o m \o Suffix(cfg) \o ".js"]

\* the seed positions of a call whose module does not resolve
Skipped(rec) ==
    {k \in 1..Len(SeedOf(rec)) : ~Resolvable(SeedOf(rec)[k], rec.config, rec.map)}

\* the resolved modules of a call, in seed order, as {group, path} entries
Entries(rec) ==
    LET mods == SeedOf(rec)
        ok(m) == Resolvable(m, rec.config, rec.map)
        kept == SelectSeq(mods, ok)
    IN  [k \in 1..Len(kept) |-> EntryOf(kept[k], rec.config, rec.map)]

\* the compatibility rule: both combine, same comboBase, same comboSep
Compatible(g, h) ==
    /\ g.combine
    /\ h.combine
    /\ g.comboBase = h.comboBase
    /\ g.comboSep = h.comboSep

\* the descriptor of one module served on its own
Single(e) == [src |-> e.group.base \o e.path]

RECURSIVE Glued(_, _, _)
\* the first k of the fragments, in order, with sep between neighbours
Glued(frags, sep, k) ==
    IF k = 0 THEN ""
    ELSE IF k = 1 THEN frags[1]
    ELSE Glued(frags, sep, k - 1) \o sep \o frags[k]

\* the descriptor of a run of modules served by one combo url
Combo(es) ==
    [src |-> es[1].group.comboBase
             \o Glued([k \in 1..Len(es) |-> es[k].group.root \o es[k].path],
                      es[1].group.comboSep, Len(es))]

\* the first and last position of the maximal compatible run around position k
RunStart(E, k) ==
    CHOOSE p \in 1..k :
        /\ \A j \in (p + 1)..k : Compatible(E[j - 1].group, E[j].group)
        /\ p = 1 \/ ~Compatible(E[p - 1].group, E[p].group)

RunEnd(E, k) ==
    CHOOSE q \in k..Len(E) :
        /\ \A j \in (k + 1)..q : Compatible(E[j - 1].group, E[j].group)
        /\ q = Len(E) \/ ~Compatible(E[q].group, E[q + 1].group)

\* the number of runs and single modules that begin at or before position k
BlockIndex(E, k) ==
    1 + Cardinality({j \in 2..k : ~Compatible(E[j - 1].group, E[j].group)})

\* Reading a descriptor list back: a set c of cut positions (a cut at k is
\* between entries k and k+1) splits E into consecutive blocks; the list
\* carries E under c when it has one descriptor per block, in order, a block
\* being one non-combinable module or some combinable ones.
Carrier(c, k) == 1 + Cardinality({j \in c : j < k})

BlockOf(E, c, b) ==
    LET ks == {k \in 1..Len(E) : Carrier(c, k) = b}
        lo == CHOOSE k \in ks : \A k2 \in ks : k <= k2
        hi == CHOOSE k \in ks : \A k2 \in ks : k2 <= k
    IN  SubSeq(E, lo, hi)

CarriesUnder(out, E, c) ==
    IF Len(E) = 0 THEN out = <<>>
    ELSE /\ Len(out) = Cardinality(c) + 1
         /\ \A b \in 1..Len(out) :
                LET blk == BlockOf(E, c, b)
                IN  IF \A k \in 1..Len(blk) : blk[k].group.combine
                    THEN out[b] = Combo(blk)
                    ELSE Len(blk) = 1 /\ out[b] = Single(blk[1])

\* the ways the descriptor list of a call expands to its resolved modules
Expansions(rec) ==
    LET E == Entries(rec)
    IN  {c \in SUBSET (1..(Len(E) - 1)) : CarriesUnder(rec.list, E, c)}

Calls == 1..Len(returned)

-----------------------------------------------------------------------------
\* positions p < q < r of E: a combinable module, a non-combinable one, a
\* combinable one compatible with the first
RunBoundaryCase(E, p, q, r) ==
    /\ p < q /\ q < r
    /\ E[p].group.combine
    /\ ~E[q].group.combine
    /\ Compatible(E[p].group, E[r].group)

(* C1: a combinable module a, later a non-combinable b, later a combinable *)
(* c compatible with a: the list has the combined descriptor of a's run,   *)
(* after it the single descriptor of b, after it a separate combined       *)
(* descriptor of c's run; and a combinable module right after a            *)
(* non-combinable one begins the run its descriptor is built from.         *)
C1_RunBoundary ==
    \A n \in Calls :
        LET E   == Entries(returned[n])
            out == returned[n].list
        IN  /\ \A p, q, r \in 1..Len(E) :
                  RunBoundaryCase(E, p, q, r) =>
                      /\ BlockIndex(E, r) <= Len(out)
                      /\ RunEnd(E, p) < q /\ q < RunStart(E, r)
                      /\ BlockIndex(E, p) < BlockIndex(E, q)
                      /\ BlockIndex(E, q) < BlockIndex(E, r)
                      /\ out[BlockIndex(E, p)] =
                            Combo(SubSeq(E, RunStart(E, p), RunEnd(E, p)))
                      /\ out[BlockIndex(E, q)] = Single(E[q])
                      /\ out[BlockIndex(E, r)] =
                            Combo(SubSeq(E, RunStart(E, r), RunEnd(E, r)))
            /\ \A k \in 2..Len(E) :
                  (~E[k - 1].group.combine /\ E[k].group.combine) =>
                      /\ BlockIndex(E, k) <= Len(out)
                      /\ out[BlockIndex(E, k)] = Combo(SubSeq(E, k, RunEnd(E, k)))

\* a finished call on a seed [a, s, b]: app and lib are compatible
C1_Witness ==
    \E n \in Calls :
        LET E == Entries(returned[n])
        IN  /\ Len(E) = 3
            /\ RunBoundaryCase(E, 1, 2, 3)
            /\ E[1].group # E[3].group
            /\ Len(returned[n].list) = 3

(* C2: every maximal run of consecutive resolved modules of combinable     *)
(* groups with one comboBase and comboSep gives exactly one descriptor:    *)
(* comboBase, then each module's own group.root + path, joined by          *)
(* comboSep, in seed order; the list has no other descriptors than those   *)
(* of the runs and of the non-combinable modules.                          *)
C2_MergeCorrectness ==
    \A n \in Calls :
        LET E   == Entries(returned[n])
            out == returned[n].list
        IN  /\ Len(out) = (IF Len(E) = 0 THEN 0 ELSE BlockIndex(E, Len(E)))
            /\ \A p \in 1..Len(E) :
                  (E[p].group.combine /\ RunStart(E, p) = p) =>
                      LET q == RunEnd(E, p)
                      IN  /\ \A k \in p..q : BlockIndex(E, k) = BlockIndex(E, p)
                          /\ out[BlockIndex(E, p)].src =
                                E[p].group.comboBase
                                \o Glued([k \in 1..(q - p + 1) |->
                                            E[p + k - 1].group.root \o E[p + k - 1].path],
                                         E[p].group.comboSep, q - p + 1)

\* a finished call that merged modules of two groups with different roots
C2_Witness ==
    \E n \in Calls :
        LET E == Entries(returned[n])
        IN  /\ Len(E) >= 2
            /\ Compatible(E[1].group, E[2].group)
            /\ E[1].group.root # E[2].group.root
            /\ returned[n].list[1].src = "/combo?app/a.js&lib/b.js"

(* C3: two consecutive resolved modules are carried by the same descriptor *)
(* exactly when both groups combine and have the same comboBase and the    *)
(* same comboSep, whatever the groups' names.                              *)
C3_StructuralCompatibility ==
    \A n \in Calls :
        LET E == Entries(returned[n])
        IN  /\ Expansions(returned[n]) # {}
            /\ \A c \in Expansions(returned[n]) :
                  \A k \in 1..(Len(E) - 1) :
                      (Carrier(c, k) = Carrier(c, k + 1))
                          <=> Compatible(E[k].group, E[k + 1].group)

\* a finished call where a module of a named group and an unregistered module
\* (group: the top-level config) share a descriptor, and one where two
\* combinable neighbours with different comboSep do not
C3_Witness ==
    /\ \E n \in Calls :
        LET E == Entries(returned[n])
        IN  /\ Len(E) = 3
            /\ E[1].group = asGroup(GroupCatalog.app)
            /\ E[2].group = asGroup(returned[n].config)
            /\ E[3].group = asGroup(GroupCatalog.alt)
            /\ Len(returned[n].list) = 2

(* C4: the descriptor list expands, in order, to exactly the resolved      *)
(* modules in seed order: it can be read as one descriptor per block of a  *)
(* split of the resolved sequence into consecutive blocks, in one way.     *)
C4_OrderPreserved ==
    \A n \in Calls : Cardinality(Expansions(returned[n])) = 1

\* a finished call of three resolved modules whose list is the descriptor of
\* the first and one combined descriptor of the other two
C4_Witness ==
    \E n \in Calls :
        /\ Len(Entries(returned[n])) = 3
        /\ Len(seedModules(returned[n].config)) = 3
        /\ Expansions(returned[n]) = {{1}}

(* C5: when no resolved module's group combines, the list has one          *)
(* descriptor per resolved module, in seed order, with src = base + path.  *)
C5_NoCombine ==
    \A n \in Calls :
        LET E   == Entries(returned[n])
            out == returned[n].list
        IN  (\A k \in 1..Len(E) : ~E[k].group.combine) =>
                /\ Len(out) = Len(E)
                /\ \A k \in 1..Len(E) : out[k].src = E[k].group.base \o E[k].path

\* a finished call on two different non-combinable modules
C5_Witness ==
    \E n \in Calls :
        LET E == Entries(returned[n])
        IN  /\ Len(E) = 2
            /\ \A k \in 1..Len(E) : ~E[k].group.combine
            /\ E[1] # E[2]
            /\ ~returned[n].config.combine

ExpectedList(E) ==
    IF Len(E) = 0 THEN <<>>
    ELSE [b \in 1..BlockIndex(E, Len(E)) |->
            LET p == CHOOSE k \in 1..Len(E) : BlockIndex(E, k) = b /\ RunStart(E, k) = k
            IN  IF E[p].group.combine
                THEN Combo(SubSeq(E, p, RunEnd(E, p)))
                ELSE Single(E[p])]

(* C7: a module that does not resolve is skipped: exposeSeed never throws, *)
(* and the list of a call whose seed has such modules is the list its      *)
(* resolved modules give, the skipped ones adding nothing to it.           *)
C7_SkipUnresolvable ==
    /\ pc # "thrown"
    /\ \A n \in Calls :
          Skipped(returned[n]) # {} =>
              returned[n].list = ExpectedList(Entries(returned[n]))

\* a finished call whose seed has a skipped module between two modules of
\* one run
C7_Witness ==
    \E n \in Calls :
        /\ Skipped(returned[n]) = {2}
        /\ Len(SeedOf(returned[n])) = 3
        /\ Len(returned[n].list) = 1

\* the loop has just handled a resolvable module m whose entry is e: e.group
\* is the remembered group, and e's fragment is the last of the pending run
\* or e's single descriptor the last of the list
JustEmitted(e) ==
    /\ prevGroup = <<e.group>>
    /\ IF e.group.combine
       THEN stack # <<>> /\ stack[Len(stack)] = e.group.root \o e.path
       ELSE /\ heap[seedCache] # <<>>
            /\ heap[seedCache][Len(heap[seedCache])].src = e.group.base \o e.path

(* C8: a module m that the module map does not have is resolved with the   *)
(* top-level config as its group and the path m/m<suffix>.js, the suffix   *)
(* being '' for the filter raw, '-debug' for debug, and '-min' for min, no *)
(* filter or any other filter; a registered module is resolved with its    *)
(* group and its explicit path whatever the filter.                        *)
C8_DefaultSuffix ==
    (pc = "loop" /\ i > 1) =>
        LET m == modules[i - 1]
            suffix == CASE config.filter = <<"raw">>   -> ""
                        [] config.filter = <<"min">>   -> "-min"
                        [] config.filter = <<"debug">> -> "-debug"
                        [] OTHER                       -> "-min"
        IN  IF m \notin DOMAIN _map
            THEN JustEmitted([group |-> asGroup(config),
                              path  |-> m \o "/" \o m \o suffix \o ".js"])
            ELSE Resolvable(m, config, _map) =>
                    JustEmitted([group |-> asGroup(config.groups[_map[m].group]),
                                 path  |-> _map[m].path])

\* the loop has just handled an unregistered module under a filter that is
\* set and is none of raw, min, debug
C8_Witness ==
    /\ pc = "loop"
    /\ i > 1
    /\ modules[i - 1] \notin DOMAIN _map
    /\ config.filter = <<"fast">>
    /\ \/ stack # <<>> /\ stack[Len(stack)] = "yui/yui-base/yui-base-min.js"
       \/ /\ heap[seedCache] # <<>>
          /\ heap[seedCache][Len(heap[seedCache])].src = "/yui/yui-base/yui-base-min.js"

(* C9: two calls of exposeSeed on the same configuration and module map   *)
(* build equal descriptor lists and return the same kind of value: a call  *)
(* leaves nothing behind that the next one reads.                          *)
C9_Idempotent ==
    \A m, n \in Calls :
        (returned[m].config = returned[n].config /\ returned[m].map = returned[n].map) =>
            /\ returned[m].list = returned[n].list
            /\ returned[m].value.type = returned[n].value.type

\* two finished calls with a list of two descriptors, the first call's array
\* changed by a handler before the second call ran
C9_Witness ==
    /\ Len(returned) = 2
    /\ Len(returned[1].list) = 2
    /\ requests # <<>>
    /\ requests[1].changed
    /\ returned[2].value.seedCache = 2
    /\ Len(heap[1]) = 3

(* C10 as claimed: requests do not interfere: a request whose own handler  *)
(* did not change the list it received sees the list exposeSeed built,     *)
(* whatever the handlers of other requests did to theirs.                  *)
C10_RequestsIsolated ==
    \A r \in 1..Len(requests) :
        ~requests[r].changed =>
            heap[requests[r].yui_seed] = returned[requests[r].by].list

-----------------------------------------------------------------------------
(* The loop of a running call, seen from the claims.                       *)

\* the resolved modules among the first k of the running call's seed list,
\* in order, as {group, path} entries
PrefixEntries(k) ==
    LET ok(m) == Resolvable(m, config, _map)
        kept == SelectSeq(SubSeq(modules, 1, k), ok)
    IN  [j \in 1..Len(kept) |-> EntryOf(kept[j], config, _map)]

\* the descriptor of the run of E from position p to position q, built from
\* the comboBase and comboSep of the group of position g
RunDescriptor(E, p, q, g) ==
    [src |-> E[g].group.comboBase
             \o Glued([k \in 1..(q - p + 1) |->
                         E[p + k - 1].group.root \o E[p + k - 1].path],
                      E[g].group.comboSep, q - p + 1)]

\* positions k, k+1 of E: two combinable modules of incompatible groups
IncompatibleNeighbours(E, k) ==
    /\ k >= 1 /\ k < Len(E)
    /\ E[k].group.combine
    /\ E[k + 1].group.combine
    /\ ~Compatible(E[k].group, E[k + 1].group)

(* C16: when a combinable module follows a combinable module of an         *)
(* incompatible group, the pending run is flushed first, as a descriptor   *)
(* of its own built from the comboBase and comboSep of the run being       *)
(* closed, not of the incoming group; the incoming module starts a new     *)
(* run, emitted later with its own group's comboBase and comboSep.         *)
C16_IncompatibleClosesRun ==
    /\ (pc = "loop" /\ i > 1 /\ Resolvable(modules[i - 1], config, _map)) =>
          LET P == PrefixEntries(i - 1)
              n == Len(P)
              cache == heap[seedCache]
          IN  IncompatibleNeighbours(P, n - 1) =>
                  /\ cache # <<>>
                  /\ cache[Len(cache)] =
                        RunDescriptor(P, RunStart(P, n - 1), n - 1, n - 1)
                  /\ stack = <<P[n].group.root \o P[n].path>>
                  /\ prevGroup = <<P[n].group>>
    /\ \A c \in Calls :
          LET E   == Entries(returned[c])
              out == returned[c].list
          IN  \A k \in 1..(Len(E) - 1) :
                  IncompatibleNeighbours(E, k) =>
                      /\ BlockIndex(E, k + 1) = BlockIndex(E, k) + 1
                      /\ BlockIndex(E, k + 1) <= Len(out)
                      /\ out[BlockIndex(E, k)] =
                            RunDescriptor(E, RunStart(E, k), k, k)
                      /\ out[BlockIndex(E, k + 1)] =
                            RunDescriptor(E, k + 1, RunEnd(E, k + 1), k + 1)

\* a finished call on a seed [a, c, d]: three combinable modules, cdn with
\* another comboBase than app, alt with another comboSep than cdn
C16_Witness ==
    \E c \in Calls :
        LET E == Entries(returned[c])
        IN  /\ Len(E) = 3
            /\ IncompatibleNeighbours(E, 1)
            /\ IncompatibleNeighbours(E, 2)
            /\ E[1].group.comboBase # E[2].group.comboBase
            /\ E[2].group.comboSep # E[3].group.comboSep
            /\ returned[c].list[1].src = "/combo?app/a.js"
            /\ returned[c].list[2].src = "//cdn/combo?cdn/c.js"

(* C17: at every step of the loop, a non-empty pending buffer means that   *)
(* prevGroup is defined and combines, and every pending fragment is the    *)
(* fragment of a resolved module whose group has prevGroup's comboBase and *)
(* comboSep; so flush never reads comboBase or comboSep of an undefined or *)
(* non-combinable group (the call never throws), and after the final flush *)
(* the buffer is empty.                                                    *)
C17_PendingRunInvariant ==
    /\ pc # "thrown"
    /\ (pc = "loop" /\ stack # <<>>) =>
          /\ prevGroup # <<>>
          /\ prevGroup[1].combine
          /\ LET P == PrefixEntries(i - 1)
                 n == Len(P)
             IN  /\ Len(stack) <= n
                 /\ \A j \in 1..Len(stack) :
                        LET e == P[n - Len(stack) + j]
                        IN  /\ stack[j] = e.group.root \o e.path
                            /\ e.group.combine
                            /\ e.group.comboBase = prevGroup[1].comboBase
                            /\ e.group.comboSep = prevGroup[1].comboSep
    /\ pc = "idle" => stack = <<>>

\* the loop holds a pending run of two modules of different groups, after a
\* run of another comboBase was closed
C17_Witness ==
    /\ pc = "loop"
    /\ i = 4
    /\ Len(stack) = 2
    /\ stack[1] # stack[2]
    /\ Len(heap[seedCache]) = 1
    /\ heap[seedCache][1].src = "//cdn/combo?cdn/c.js"

\* the loop is at a seed position whose module does not resolve
AtSkippedModule ==
    /\ pc = "loop"
    /\ i <= Len(modules)
    /\ ~Resolvable(modules[i], config, _map)

(* C18: a skipped module leaves the pending buffer, prevGroup and the      *)
(* descriptor list unchanged, so it does not close the run: two compatible *)
(* combinable modules with only skipped modules between them are emitted   *)
(* in one combined descriptor.                                             *)
C18_SkipKeepsRun ==
    /\ [][AtSkippedModule =>
              /\ stack' = stack
              /\ prevGroup' = prevGroup
              /\ heap' = heap
              /\ i' = i + 1]_vars
    /\ [](\A c \in Calls :
            LET mods == SeedOf(returned[c])
                E    == Entries(returned[c])
                sk   == Skipped(returned[c])
                pos(p) == p - Cardinality({j \in sk : j < p})
            IN  \A p, q \in 1..Len(mods) :
                    (/\ p < q
                     /\ p \notin sk /\ q \notin sk
                     /\ (p + 1)..(q - 1) \subseteq sk
                     /\ (p + 1)..(q - 1) # {}
                     /\ Compatible(E[pos(p)].group, E[pos(q)].group)) =>
                        /\ pos(q) = pos(p) + 1
                        /\ BlockIndex(E, pos(p)) = BlockIndex(E, pos(q))
                        /\ returned[c].list[BlockIndex(E, pos(p))] =
                              Combo(SubSeq(E, RunStart(E, pos(p)), RunEnd(E, pos(q)))))

\* the loop has just skipped the second module of a seed [a, x, b] with a's
\* fragment pending, and nothing was flushed
C18_Witness ==
    /\ pc = "loop"
    /\ i = 3
    /\ Len(modules) = 3
    /\ ~Resolvable(modules[2], config, _map)
    /\ Resolvable(modules[3], config, _map)
    /\ stack = <<"app/a.js">>
    /\ prevGroup # <<>>
    /\ heap[seedCache] = <<>>
    /\ modules[3] = "b"

-----------------------------------------------------------------------------
(* The calls of lib/server.js, seen from the claims.                       *)

RECURSIVE Flat(_, _)
\* the lists q[1], ..., q[k] one after the other
Flat(q, k) == IF k = 0 THEN <<>> ELSE Flat(q, k - 1) \o q[k]

\* the position of the last use() before call u, 0 when there is none
LastUseBefore(u) ==
    LET before == {j \in 1..(u - 1) : serverCalls[j].op = "use"}
    IN  IF before = {} THEN 0 ELSE CHOOSE j \in before : \A k \in before : k <= j

\* the modules of the attachModules calls after call p and before call u
\* that found no instance, in call order
QueuedBetween(p, u) ==
    Flat([j \in 1..(u - 1) |->
            IF /\ j > p
               /\ serverCalls[j].op = "attachModules"
               /\ ~serverCalls[j].hadY
            THEN serverCalls[j].mods ELSE <<>>], u - 1)

\* every module every call passed, and every module handed to Y.use, in
\* call order
ModulesPassed ==
    Flat([j \in 1..Len(serverCalls) |-> serverCalls[j].mods], Len(serverCalls))

ModulesHanded ==
    Flat([j \in 1..Len(serverCalls) |->
            IF serverCalls[j].handed = <<>> THEN <<>> ELSE serverCalls[j].handed[1]],
         Len(serverCalls))

(* C11: modules passed to attachModules while there is no server Y         *)
(* instance are queued and not attached; the next use() hands every queued *)
(* module to Y.use, in the order of the attachModules calls and before its *)
(* own module arguments; no module is lost or handed twice.                *)
C11_QueuedModulesAttachedOnce ==
    /\ \A k \in 1..Len(serverCalls) :
          (serverCalls[k].op = "attachModules" /\ ~serverCalls[k].hadY) =>
              serverCalls[k].handed = <<>>
    /\ \A u \in 1..Len(serverCalls) :
          serverCalls[u].op = "use" =>
              LET all == QueuedBetween(LastUseBefore(u), u) \o serverCalls[u].mods
              IN  serverCalls[u].handed = IF all = <<>> THEN <<>> ELSE <<all>>
    /\ ModulesHanded \o modulesQueue = ModulesPassed
    /\ _Y = <<>> => ModulesHanded = <<>>
    /\ _Y # <<>> => Flat(_Y[1].used, Len(_Y[1].used)) = ModulesHanded

\* two attachModules calls without an instance, then use('m3'): the three
\* lists reach Y.use as one, in call order
C11_Witness ==
    /\ Len(serverCalls) = 3
    /\ serverCalls[1].op = "attachModules" /\ serverCalls[1].mods = <<"m1">>
    /\ serverCalls[2].op = "attachModules" /\ serverCalls[2].mods = <<"m2", "m1">>
    /\ serverCalls[3].op = "use"
    /\ _Y # <<>>
    /\ _Y[1].used = <<(<<"m1", "m2", "m1", "m3">>)>>
    /\ modulesQueue = <<>>

(* C12 as claimed: every group passed to registerModules since the last    *)
(* use() is in the configuration of the server Y instance after the next   *)
(* use().                                                                  *)
C12_RegisteredGroupsApplied ==
    \A u \in 1..Len(serverCalls) :
        serverCalls[u].op = "use" =>
            \A j \in (LastUseBefore(u) + 1)..(u - 1) :
                serverCalls[j].op = "registerModules" =>
                    serverCalls[j].group \in serverCalls[u].groups

-----------------------------------------------------------------------------
(* lib/yui.js, seen from the claims.                                       *)

(* C13: yui() initialises at most once: a call of yui() after another call *)
(* of it has run throws the 'Multiple attemps' error and leaves yui.locals *)
(* and the static configuration in it as they were.                        *)
C13_InitialisedOnce ==
    [][(Len(yuiCalls) >= 1 /\ Len(yuiCalls') = Len(yuiCalls) + 1) =>
          /\ yuiCalls'[Len(yuiCalls')].threw = MultipleAttempts
          /\ yui_locals' = yui_locals
          /\ config' = config
          /\ YUI' = YUI]_vars

\* a second call of yui() has thrown, after a first call that failed to
\* require the yui package and a change of the configuration
C13_Witness ==
    /\ Len(yuiCalls) = 2
    /\ yuiCalls[1].threw = RequireFailed
    /\ yuiCalls[2].threw = MultipleAttempts
    /\ changes > 0
    /\ "debug" \in DOMAIN config

\* the configuration cfg with the per-request settings over it
Overridden(cfg, settings) ==
    [k \in DOMAIN cfg \cup DOMAIN settings |->
        IF k \in DOMAIN settings THEN settings[k] ELSE cfg[k]]

(* C14 as claimed: what a middleware of exposeConfig() exposes in          *)
(* res.locals.yui_config is the configuration as it was when               *)
(* exposeConfig() was called, under the request's own res.locals.yui if it *)
(* has one: no later change of the static configuration shows in it.       *)
C14_ExposedConfigImmutable ==
    \A r \in 1..Len(configRequests) :
        LET q  == configRequests[r]
            at == exposed[q.by].at
        IN  q.yui_config =
                [text |-> IF q.yui = <<>> THEN at ELSE Overridden(at, q.yui[1])]

-----------------------------------------------------------------------------
(* lib/hashfiles.js, seen from the claims.                                 *)

(* C15 as claimed: process() invokes its callback exactly once, and only   *)
(* after the hash of every entry of the listing has completed, whatever    *)
(* the listing and whenever the hashfile calls complete.                   *)
C15_CallbackExactlyOnce ==
    /\ Len(callbacks) <= 1
    /\ \A c \in 1..Len(callbacks) :
          ~callbacks[c].err =>
              DOMAIN callbacks[c].hashes \cup DOMAIN callbacks[c].invalid
                  = {pathnameOf(listing[k]) : k \in 1..Len(listing)}
    /\ (hstate = "hashing" /\ inFlight = {}) => Len(callbacks) = 1

-----------------------------------------------------------------------------
(* C19 as claimed: the seed list is computed once, by the call of          *)
(* exposeSeed(): every request a middleware serves finds in yui_seed the   *)
(* array of that call holding the descriptors the call built, whatever was *)
(* changed in the static configuration since and whichever requests were   *)
(* served before.                                                          *)
C19_SeedComputedOnce ==
    \A r \in 1..Len(requests) :
        /\ requests[r].yui_seed = returned[requests[r].by].value.seedCache
        /\ requests[r].got = returned[requests[r].by].list

====
